---- MODULE Spec2Model ----
(***************************************************************************)
(* Model of scraping_data.py: the season-code resolver, the per-season     *)
(* fetch loop and the concatenation of scrape_premier_league_data, the     *)
(* column projection and outcome derivation of process_match_data, and     *)
(* save_data, run in the order of the __main__ block.                      *)
(*                                                                         *)
(* Text is modelled as a sequence of tokens (one-character strings for     *)
(* digits, whole words elsewhere), so that slicing and concatenation are   *)
(* computed as Python computes them.  A table cell is a record             *)
(* [kind, n, s]; a DataFrame is a record [absent, columns, rows] whose     *)
(* rows are sequences of cells aligned with columns; None is the frame     *)
(* with absent = TRUE.                                                     *)
(***************************************************************************)
EXTENDS Integers, Sequences, FiniteSets, TLC

VARIABLES
    seasons,        \* argument of scrape_premier_league_data
    current_year,   \* datetime.now().year
    i,              \* loop counter of the resolver loop (line 24)
    season_codes,   \* list built by the resolver loop
    k,              \* number of season codes the fetch loop has handled
    all_data,       \* list of per-season frames (line 30)
    requested,      \* URLs passed to requests.get, in call order
    responses,      \* what each call produced (history)
    sleeps,         \* number of time.sleep(1) calls made
    combined_data,  \* value returned by scrape_premier_league_data
    processed_data, \* value returned by process_match_data
    file,           \* lines written by save_data (NoFile: nothing written)
    printed,        \* console messages, in order
    pc              \* which function runs: scrape, process, save, done, raised

vars == <<seasons, current_year, i, season_codes, k, all_data, requested,
          responses, sleeps, combined_data, processed_data, file, printed, pc>>

(***************************************************************************)
(* Bounds                                                                  *)
(***************************************************************************)
MaxSeasons == 3

MaxRows == 3

\* Clock readings: two ordinary years and the two years whose recent
\* seasons straddle a century.
CurrentYears == {2026, 2027, 2100, 2101}

(***************************************************************************)
(* Text helpers                                                            *)
(***************************************************************************)
Digits == <<"0", "1", "2", "3", "4", "5", "6", "7", "8", "9">>

IsDigit(c) == \E d \in 1..10 : Digits[d] = c

DigitVal(c) == (CHOOSE d \in 1..10 : Digits[d] = c) - 1

RECURSIVE Str(_)
Str(n) ==
    IF n < 10 THEN <<Digits[n + 1]>>
    ELSE Str(n \div 10) \o <<Digits[(n % 10) + 1]>>

\* Python s[a:] and s[:b] for a, b >= 0
SliceFrom(s, a) == SubSeq(s, a + 1, Len(s))

SliceTo(s, b) == SubSeq(s, 1, IF b < Len(s) THEN b ELSE Len(s))

RECURSIVE NumVal(_)
NumVal(s) ==
    IF s = <<>> THEN 0
    ELSE 10 * NumVal(SubSeq(s, 1, Len(s) - 1)) + DigitVal(s[Len(s)])

Range(s) == {s[j] : j \in 1..Len(s)}

Index(s, x) == CHOOSE j \in 1..Len(s) : s[j] = x

(***************************************************************************)
(* Cells and frames                                                        *)
(***************************************************************************)
NaN == [kind |-> "nan", n |-> 0, s |-> <<>>]

Num(x) == [kind |-> "num", n |-> x, s |-> <<>>]

Text(t) == [kind |-> "text", n |-> 0, s |-> t]

Timestamp(t) == [kind |-> "timestamp", n |-> 0, s |-> t]

NaT == [kind |-> "nat", n |-> 0, s |-> <<>>]

None == [absent |-> TRUE, columns |-> <<>>, rows |-> <<>>]

Frame(cols, rws) == [absent |-> FALSE, columns |-> cols, rows |-> rws]

\* DataFrame.empty: some axis has length 0
IsEmpty(df) == Len(df.columns) = 0 \/ Len(df.rows) = 0

HasColumn(df, c) == c \in Range(df.columns)

Column(df, c) == [r \in 1..Len(df.rows) |-> df.rows[r][Index(df.columns, c)]]

\* df[c] = values : overwrite in place when c exists, else append a column
SetColumn(df, c, values) ==
    IF HasColumn(df, c)
    THEN Frame(df.columns,
               [r \in 1..Len(df.rows) |->
                   [df.rows[r] EXCEPT ![Index(df.columns, c)] = values[r]]])
    ELSE Frame(Append(df.columns, c),
               [r \in 1..Len(df.rows) |-> Append(df.rows[r], values[r])])

(***************************************************************************)
(* Season-range resolver (lines 23-28)                                     *)
(***************************************************************************)
\* faulty variant: drops one leading digit instead of two
season_code_wrong_slice(start_year) ==
    SliceFrom(Str(start_year), 1) \o SliceFrom(Str(start_year + 1), 1)

\* line 27
season_code(start_year) ==
    SliceFrom(Str(start_year), 2) \o SliceFrom(Str(start_year + 1), 2)

\* line 25
start_year_of(Y, N, j) == Y - N + j

(***************************************************************************)
(* Season fetcher (lines 20, 34-49)                                        *)
(***************************************************************************)
\* line 20
base_url == <<"https:", "/", "/", "www.football-data.co.uk", "/", "mmz4281", "/">>

\* line 35
url_of(code) == base_url \o <<"/">> \o code \o <<"/", "E0.csv">>

\* Season label built from the code, lines 41-43
season_label(code) ==
    <<"2", "0">> \o SliceTo(code, 2) \o <<"-">> \o <<"2", "0">> \o SliceFrom(code, 2)

(***************************************************************************)
(* Responses.  A body is a sequence of lines, a line a sequence of fields, *)
(* a field a sequence of tokens; <<>> is a blank line.                     *)
(***************************************************************************)
\* response.text.strip() is truthy: some line holds something
NonBlank(body) == \E j \in 1..Len(body) : body[j] # <<>>

\* read_csv skips blank lines (skip_blank_lines defaults to True)
CsvLines(body) == SelectSeq(body, LAMBDA line : line # <<>>)

\* pandas.errors.ParserError ("Expected n fields in line m, saw n+1"): a data
\* line after the first holds more fields than the header.  It is not a
\* requests.exceptions.RequestException.
read_csv_raises(body) ==
    LET lines == CsvLines(body) IN
    /\ Len(lines) >= 3
    /\ Len(lines[2]) <= Len(lines[1])
    /\ \E j \in 3..Len(lines) : Len(lines[j]) > Len(lines[1])

\* type inference of one field: empty -> NaN, digits -> number, else text
ParseField(f) ==
    IF f = <<>> THEN NaN
    ELSE IF \A j \in 1..Len(f) : IsDigit(f[j]) THEN Num(NumVal(f))
    ELSE Text(f)

\* pd.read_csv(StringIO(text)): header line, then one row per data line,
\* short lines padded with NaN
read_csv(body) ==
    LET lines == CsvLines(body)
        header == [j \in 1..Len(lines[1]) |-> lines[1][j][1]]
    IN  Frame(header,
              [r \in 1..(Len(lines) - 1) |->
                  [j \in 1..Len(header) |->
                      IF j <= Len(lines[r + 1])
                      THEN ParseField(lines[r + 1][j]) ELSE NaN]])

\* data['Season'] = f"{start_year}-{end_year}" (lines 40-43)
tag_season(body, code) ==
    LET data == read_csv(body) IN
    SetColumn(data, "Season", [r \in 1..Len(data.rows) |-> Text(season_label(code))])

(***************************************************************************)
(* pd.concat(all_data, ignore_index=True) (line 52)                        *)
(***************************************************************************)
RECURSIVE UnionColumns(_)
UnionColumns(frames) ==
    IF frames = <<>> THEN <<>>
    ELSE LET before == UnionColumns(SubSeq(frames, 1, Len(frames) - 1))
             last == frames[Len(frames)]
         IN  before \o SelectSeq(last.columns, LAMBDA c : c \notin Range(before))

Reindex(df, cols) ==
    [r \in 1..Len(df.rows) |->
        [j \in 1..Len(cols) |->
            IF HasColumn(df, cols[j])
            THEN df.rows[r][Index(df.columns, cols[j])] ELSE NaN]]

RECURSIVE ConcatRows(_, _)
ConcatRows(frames, cols) ==
    IF frames = <<>> THEN <<>>
    ELSE Reindex(Head(frames), cols) \o ConcatRows(Tail(frames), cols)

concat(frames) ==
    LET cols == UnionColumns(frames) IN Frame(cols, ConcatRows(frames, cols))

\* lines 51-56
scrape_result(frames) == IF frames # <<>> THEN concat(frames) ELSE None

(***************************************************************************)
(* Match-data normalizer: process_match_data (lines 59-127)                *)
(***************************************************************************)
relevant_columns ==
    <<"HomeTeam", "AwayTeam", "FTHG", "FTAG", "HS", "AS", "HST", "AST",
      "HC", "AC", "Season", "Date">>

MinColumns == 8

\* faulty variant: keeps the order of the input's columns
available_columns_input_order(df) ==
    SelectSeq(df.columns, LAMBDA c : c \in Range(relevant_columns))

\* line 94, in allow-list order
available_columns(df) == SelectSeq(relevant_columns, LAMBDA c : HasColumn(df, c))

\* processed_df[available_columns] (line 100)
Project(df, cols) ==
    Frame(cols,
          [r \in 1..Len(df.rows) |->
              [j \in 1..Len(cols) |-> df.rows[r][Index(df.columns, cols[j])]]])

\* element-wise comparisons of two columns of goal counts (numbers, or NaN
\* where the field was empty); any comparison with NaN is False
Gt(x, y) == x.kind = "num" /\ y.kind = "num" /\ x.n > y.n

Eq(x, y) == x.kind = "num" /\ y.kind = "num" /\ x.n = y.n

Lt(x, y) == x.kind = "num" /\ y.kind = "num" /\ x.n < y.n

\* faulty variant: the choices 1 and -1 exchanged
np_select_swapped(h, a) ==
    IF Gt(h, a) THEN Num(-1)
    ELSE IF Eq(h, a) THEN Num(0)
    ELSE IF Lt(h, a) THEN Num(1)
    ELSE Num(0)

\* np.select(conditions, [1, 0, -1]) with its default of 0 (lines 104-111)
np_select(h, a) ==
    IF Gt(h, a) THEN Num(1)
    ELSE IF Eq(h, a) THEN Num(0)
    ELSE IF Lt(h, a) THEN Num(-1)
    ELSE Num(0)

\* Series.map(outcome_map) (lines 114-115)
outcome_map(o) ==
    IF o = Num(1) THEN Text(<<"Win">>)
    ELSE IF o = Num(0) THEN Text(<<"Draw">>)
    ELSE IF o = Num(-1) THEN Text(<<"Loss">>)
    ELSE NaN

\* lines 103-115
AddOutcome(df) ==
    IF HasColumn(df, "FTHG") /\ HasColumn(df, "FTAG")
    THEN LET h == Column(df, "FTHG")
             a == Column(df, "FTAG")
             outcome == [r \in 1..Len(df.rows) |-> np_select(h[r], a[r])]
             with == SetColumn(df, "Outcome", outcome)
         IN  SetColumn(with, "OutcomeLabel",
                       [r \in 1..Len(df.rows) |-> outcome_map(outcome[r])])
    ELSE df

\* lines 117-119: read from the original frame
AddPossession(processed, df) ==
    IF HasColumn(df, "HPOSS") /\ HasColumn(df, "APOSS")
    THEN SetColumn(SetColumn(processed, "HomePossession", Column(df, "HPOSS")),
                   "AwayPossession", Column(df, "APOSS"))
    ELSE processed

\* A date text dd/mm/yyyy, one token per character
IsDateText(c) ==
    /\ c.kind = "text"
    /\ Len(c.s) = 10
    /\ c.s[3] = "/" /\ c.s[6] = "/"
    /\ \A j \in {1, 2, 4, 5, 7, 8, 9, 10} : IsDigit(c.s[j])
    /\ NumVal(SubSeq(c.s, 1, 2)) \in 1..31
    /\ NumVal(SubSeq(c.s, 4, 5)) \in 1..12

\* the Timestamp of a date text read day first: year, month, day
DayFirst(c) ==
    IF c.kind = "nan" THEN NaT
    ELSE Timestamp(SubSeq(c.s, 7, 10) \o <<"-">> \o SubSeq(c.s, 4, 5)
                   \o <<"-">> \o SubSeq(c.s, 1, 2))

to_datetime_raises(col) ==
    \E r \in 1..Len(col) : col[r].kind # "nan" /\ ~IsDateText(col[r])

\* lines 121-125: all or nothing
ParseDates(df) ==
    IF HasColumn(df, "Date") /\ ~to_datetime_raises(Column(df, "Date"))
    THEN SetColumn(df, "Date",
                   [r \in 1..Len(df.rows) |-> DayFirst(Column(df, "Date")[r])])
    ELSE df

process_match_data(df) ==
    IF df.absent \/ IsEmpty(df) THEN None
    ELSE ParseDates(AddPossession(
             AddOutcome(Project(df, available_columns(df))), df))

\* the messages process_match_data prints
process_messages(df) ==
    IF df.absent \/ IsEmpty(df) THEN <<"No data to process.">>
    ELSE (IF Len(available_columns(df)) < MinColumns
          THEN <<"Warning Insufficient columns in dataset.", "Available Columns">>
          ELSE <<>>)
         \o
         (IF HasColumn(df, "Date") /\ to_datetime_raises(Column(df, "Date"))
          THEN <<"Warning: Could not parse date column. Keeping as is.">>
          ELSE <<>>)

(***************************************************************************)
(* save_data (lines 129-146)                                               *)
(***************************************************************************)
\* faulty variant: the test for None left out
save_skips_only_empty(df) == ~df.absent /\ IsEmpty(df)

\* line 138
save_skips(df) == df.absent \/ IsEmpty(df)

FormatCell(c) ==
    IF c.kind = "num" THEN (IF c.n < 0 THEN <<"-">> \o Str(-c.n) ELSE Str(c.n))
    ELSE c.s

\* df.to_csv(output_file, index=False): a header line, then one line per row
to_csv(df) ==
    <<[j \in 1..Len(df.columns) |-> <<df.columns[j]>>]>>
    \o [r \in 1..Len(df.rows) |->
           [j \in 1..Len(df.columns) |-> FormatCell(df.rows[r][j])]]

NoFile == <<>>

(***************************************************************************)
(* Inputs: what the upstream server can answer                             *)
(***************************************************************************)
HeaderGoals == <<(<<"HomeTeam">>), (<<"FTHG">>), (<<"FTAG">>)>>

HeaderDated == <<(<<"Date">>), (<<"HomeTeam">>), (<<"FTHG">>), (<<"FTAG">>)>>

DateField == <<"1", "7", "/", "0", "8", "/", "2", "0", "1", "9">>

BodyBlank == <<>>

BodyNewlines == <<(<<>>), (<<>>)>>

BodyHeaderOnly == <<HeaderGoals>>

BodyOneRow == <<HeaderGoals, <<(<<"Leeds">>), (<<"2">>), (<<"1">>)>> >>

BodyThreeRows ==
    <<HeaderDated,
      <<DateField, (<<"Arsenal">>), (<<"1">>), (<<"1">>)>>,
      <<DateField, (<<"Fulham">>), (<<"0">>), (<<"3">>)>>,
      <<DateField, (<<"Everton">>), (<<>>), (<<"2">>)>>,
      (<<>>)>>

BodyRagged ==
    <<HeaderGoals,
      <<(<<"Leeds">>), (<<"2">>), (<<"1">>)>>,
      <<(<<"Derby">>), (<<"0">>), (<<"0">>), (<<"x">>)>> >>

Bodies ==
    {BodyBlank, BodyNewlines, BodyHeaderOnly, BodyOneRow, BodyThreeRows, BodyRagged}

StatusOK == 200

StatusNotFound == 404

Responses ==
    {[status |-> StatusOK, body |-> b] : b \in Bodies}
    \cup {[status |-> StatusNotFound, body |-> b] : b \in {BodyBlank, BodyOneRow}}

\* line 39
IsSuccess(resp) == resp.status = StatusOK /\ NonBlank(resp.body)

(***************************************************************************)
(* Inputs of process_match_data called on its own                          *)
(***************************************************************************)
ColumnChoices ==
    { <<"Date", "HomeTeam", "FTHG">>,
      <<"FTAG", "Referee", "FTHG">>,
      <<"HomeTeam", "FTHG", "HPOSS", "APOSS">>,
      <<"Referee">>,
      <<"Season", "AC", "HC", "AST", "HST", "AS", "HS", "FTAG", "FTHG",
        "AwayTeam", "HomeTeam", "HPOSS", "APOSS">> }

CellChoices(c) ==
    IF c \in {"FTHG", "FTAG"} THEN {Num(0), Num(2), NaN}
    ELSE IF c = "Date" THEN {Text(DateField), Text(<<"T", "B", "D">>)}
    ELSE IF c \in {"HomeTeam", "AwayTeam", "Referee"} THEN {Text(<<c>>)}
    ELSE IF c = "Season" THEN {Text(season_label(<<"2", "5", "2", "6">>))}
    ELSE {Num(5)}

RECURSIVE RowsOf(_)
RowsOf(cols) ==
    IF cols = <<>> THEN {<<>>}
    ELSE {<<c>> \o rest : c \in CellChoices(Head(cols)), rest \in RowsOf(Tail(cols))}

InputFrames ==
    {None} \cup
    UNION {{Frame(cols, rws) : rws \in [1..n -> RowsOf(cols)]} :
             cols \in ColumnChoices, n \in 0..MaxRows}

(***************************************************************************)
(* The program                                                             *)
(***************************************************************************)
Init ==
    /\ seasons \in 0..MaxSeasons
    /\ current_year \in CurrentYears
    /\ i = 0
    /\ season_codes = <<>>
    /\ k = 0
    /\ all_data = <<>>
    /\ requested = <<>>
    /\ responses = <<>>
    /\ sleeps = 0
    /\ combined_data = None
    /\ processed_data = None
    /\ file = NoFile
    /\ printed = <<>>
    /\ pc = "scrape"

\* one iteration of the loop of lines 24-28
ResolveSeason ==
    /\ pc = "scrape" /\ i < seasons
    /\ season_codes' =
           Append(season_codes, season_code(start_year_of(current_year, seasons, i)))
    /\ i' = i + 1
    /\ UNCHANGED <<seasons, current_year, k, all_data, requested, responses, sleeps,
                   combined_data, processed_data, file, printed, pc>>

InFetchLoop == pc = "scrape" /\ i = seasons /\ k < Len(season_codes)

\* lines 35-44, 47: status 200 with a non-blank body that parses
FetchData ==
    /\ InFetchLoop
    /\ \E resp \in Responses :
        /\ IsSuccess(resp) /\ ~read_csv_raises(resp.body)
        /\ requested' = Append(requested, url_of(season_codes[k + 1]))
        /\ responses' = Append(responses, [kind |-> "data", status |-> resp.status,
                                           body |-> resp.body])
        /\ all_data' = Append(all_data, tag_season(resp.body, season_codes[k + 1]))
    /\ sleeps' = sleeps + 1
    /\ k' = k + 1
    /\ UNCHANGED <<seasons, current_year, i, season_codes, combined_data,
                   processed_data, file, printed, pc>>

\* lines 35-39, 45-47: any other status, or a blank body
FetchNoData ==
    /\ InFetchLoop
    /\ \E resp \in Responses :
        /\ ~IsSuccess(resp)
        /\ requested' = Append(requested, url_of(season_codes[k + 1]))
        /\ responses' = Append(responses, [kind |-> "nodata", status |-> resp.status,
                                           body |-> resp.body])
    /\ printed' = Append(printed, "No data available for season. Skipping...")
    /\ sleeps' = sleeps + 1
    /\ k' = k + 1
    /\ UNCHANGED <<seasons, current_year, i, season_codes, all_data, combined_data,
                   processed_data, file, pc>>

\* faulty variant: the RequestException is not caught
FetchTransportErrorAborts ==
    /\ InFetchLoop
    /\ requested' = Append(requested, url_of(season_codes[k + 1]))
    /\ responses' = Append(responses, [kind |-> "transport", status |-> 0,
                                       body |-> BodyBlank])
    /\ pc' = "raised"
    /\ UNCHANGED <<seasons, current_year, i, season_codes, k, all_data, sleeps,
                   combined_data, processed_data, file, printed>>

\* lines 38, 48-49: requests.get raises a RequestException; line 47 is skipped
FetchTransportError ==
    /\ InFetchLoop
    /\ requested' = Append(requested, url_of(season_codes[k + 1]))
    /\ responses' = Append(responses, [kind |-> "transport", status |-> 0,
                                       body |-> BodyBlank])
    /\ printed' = Append(printed, "Error downloading data for season")
    /\ k' = k + 1
    /\ UNCHANGED <<seasons, current_year, i, season_codes, all_data, sleeps,
                   combined_data, processed_data, file, pc>>

\* line 40 raises pandas.errors.ParserError, which line 48 does not catch
FetchParserError ==
    /\ InFetchLoop
    /\ \E resp \in Responses :
        /\ IsSuccess(resp) /\ read_csv_raises(resp.body)
        /\ requested' = Append(requested, url_of(season_codes[k + 1]))
        /\ responses' = Append(responses, [kind |-> "parser", status |-> resp.status,
                                           body |-> resp.body])
    /\ pc' = "raised"
    /\ UNCHANGED <<seasons, current_year, i, season_codes, k, all_data, sleeps,
                   combined_data, processed_data, file, printed>>

\* lines 51-56, and the call of line 150 returning
ScrapeReturn ==
    /\ pc = "scrape" /\ i = seasons /\ k = Len(season_codes)
    /\ combined_data' = scrape_result(all_data)
    /\ printed' = IF all_data # <<>> THEN printed
                  ELSE Append(printed, "No data was scraped.")
    /\ pc' = "process"
    /\ UNCHANGED <<seasons, current_year, i, season_codes, k, all_data, requested,
                   responses, sleeps, processed_data, file>>

\* line 151
Process ==
    /\ pc = "process"
    /\ processed_data' = process_match_data(combined_data)
    /\ printed' = printed \o process_messages(combined_data)
    /\ pc' = "save"
    /\ UNCHANGED <<seasons, current_year, i, season_codes, k, all_data, requested,
                   responses, sleeps, combined_data, file>>

\* lines 138-140
SaveNothing ==
    /\ pc = "save"
    /\ save_skips(processed_data)
    /\ printed' = Append(printed, "No Data To Save.")
    /\ pc' = "done"
    /\ UNCHANGED <<seasons, current_year, i, season_codes, k, all_data, requested,
                   responses, sleeps, combined_data, processed_data, file>>

\* lines 141-143
SaveFile ==
    /\ pc = "save"
    /\ ~save_skips(processed_data)
    /\ file' = to_csv(processed_data)
    /\ printed' = Append(printed, "Data successfully saved")
    /\ pc' = "done"
    /\ UNCHANGED <<seasons, current_year, i, season_codes, k, all_data, requested,
                   responses, sleeps, combined_data, processed_data>>

\* lines 141-142, 145-146: to_csv raises, the exception is caught
SaveError ==
    /\ pc = "save"
    /\ ~save_skips(processed_data)
    /\ printed' = Append(printed, "Eror saving data")
    /\ pc' = "done"
    /\ UNCHANGED <<seasons, current_year, i, season_codes, k, all_data, requested,
                   responses, sleeps, combined_data, processed_data, file>>

Next ==
    \/ ResolveSeason
    \/ FetchData
    \/ FetchNoData
    \/ FetchTransportError
    \/ FetchParserError
    \/ ScrapeReturn
    \/ Process
    \/ SaveNothing
    \/ SaveFile
    \/ SaveError

Spec == Init /\ [][Next]_vars

\* process_match_data and save_data called on a table of the caller's choosing
InitNorm ==
    /\ seasons = 0
    /\ current_year \in {y \in CurrentYears : \A z \in CurrentYears : y <= z}
    /\ i = 0
    /\ season_codes = <<>>
    /\ k = 0
    /\ all_data = <<>>
    /\ requested = <<>>
    /\ responses = <<>>
    /\ sleeps = 0
    /\ combined_data \in InputFrames
    /\ processed_data = None
    /\ file = NoFile
    /\ printed = <<>>
    /\ pc = "process"

NextNorm == Process \/ SaveNothing \/ SaveFile \/ SaveError

SpecNorm == InitNorm /\ [][NextNorm]_vars

(***************************************************************************)
(* Season-range resolver: C1                                               *)
(***************************************************************************)
\* the last two decimal digits of a year, computed arithmetically
TwoDigits(y) == <<Digits[((y \div 10) % 10) + 1], Digits[(y % 10) + 1]>>

ResolverDone == i = seasons

StartYear(j) == current_year - seasons + j - 1

CodesWellFormed ==
    /\ Len(season_codes) = seasons
    /\ \A j \in 1..Len(season_codes) :
           season_codes[j] = TwoDigits(StartYear(j)) \o TwoDigits(StartYear(j) + 1)
    /\ seasons > 0 =>
           SliceFrom(season_codes[seasons], 2) = TwoDigits(current_year)

\* C1 as stated: once the resolver loop has ended the list holds exactly N
\* codes, each the two-digit start year followed by the two-digit end year of
\* the consecutive seasons Y-N .. Y-1, the last ending in Y, and the codes are
\* strictly increasing in list order.
C1_AsStated ==
    ResolverDone =>
        /\ CodesWellFormed
        /\ \A j \in 1..(Len(season_codes) - 1) :
               NumVal(season_codes[j]) < NumVal(season_codes[j + 1])

\* C1 amended: as C1_AsStated, but the codes increase only from one season to
\* the next whose start year is not a multiple of 100; onto a season that
\* starts a century the two-digit fragments wrap and the code decreases.
C1_SeasonCodes ==
    ResolverDone =>
        /\ CodesWellFormed
        /\ \A j \in 1..(Len(season_codes) - 1) :
               IF StartYear(j + 1) % 100 # 0
               THEN NumVal(season_codes[j]) < NumVal(season_codes[j + 1])
               ELSE NumVal(season_codes[j]) > NumVal(season_codes[j + 1])

C1_Witness ==
    /\ ResolverDone
    /\ seasons >= 3
    /\ \E j \in 1..(Len(season_codes) - 1) : StartYear(j + 1) % 100 = 0
    /\ \E j \in 1..(Len(season_codes) - 1) : StartYear(j + 1) % 100 # 0

(***************************************************************************)
(* Fetch loop: C2, C4, C9                                                  *)
(***************************************************************************)
\* C2: after each handled season, whatever its outcome, the loop has paused
\* exactly once: the number of pauses equals the number of seasons handled.
C2_PausePerSeason == sleeps = k

RECURSIVE Count(_, _)
Count(s, kinds) ==
    IF s = <<>> THEN 0
    ELSE (IF Head(s).kind \in kinds THEN 1 ELSE 0) + Count(Tail(s), kinds)

\* number of data lines of a body, counted on the text
DataLines(body) ==
    Cardinality({j \in 1..Len(body) : body[j] # <<>>}) - 1

RECURSIVE RowsIn(_)
RowsIn(frames) ==
    IF frames = <<>> THEN 0 ELSE Len(Head(frames).rows) + RowsIn(Tail(frames))

RECURSIVE RowsAnswered(_)
RowsAnswered(s) ==
    IF s = <<>> THEN 0
    ELSE (IF Head(s).kind = "data" THEN DataLines(Head(s).body) ELSE 0)
         + RowsAnswered(Tail(s))

FailureKinds == {"nodata", "transport"}

Returned == pc \in {"process", "save", "done"}

\* C4: a non-200 status, a blank body or a transport error adds no rows and
\* never aborts the run: each season handled so far was requested exactly once
\* and in resolver order, only an unparsable body can raise, after a failure
\* the next season's request is made, and a run that returns has requested
\* every season.
C4_FailuresAbsorbed ==
    /\ Len(requested) = Len(responses)
    /\ \A j \in 1..Len(requested) : requested[j] = url_of(season_codes[j])
    /\ k = Count(responses, FailureKinds \cup {"data"})
    /\ Len(all_data) = Count(responses, {"data"})
    /\ RowsIn(all_data) = RowsAnswered(responses)
    /\ pc = "raised" => responses[Len(responses)].kind = "parser"
    /\ Returned => Len(requested) = seasons /\ k = seasons
    /\ (Len(responses) > 0 /\ Len(responses) < seasons
          /\ responses[Len(responses)].kind \in FailureKinds)
           => ENABLED FetchData /\ ENABLED FetchNoData /\ ENABLED FetchTransportError

C4_Witness ==
    /\ pc = "done"
    /\ seasons = 3
    /\ responses[1].kind = "transport"
    /\ responses[2].kind = "nodata"
    /\ responses[3].kind = "data"
    /\ RowsIn(all_data) = 3

\* the text of a URL after scheme, "//" and host
PathOf(url) == SliceFrom(url, 4)

\* the segments of a path that starts with "/"
RECURSIVE Segments(_)
Segments(path) ==
    IF path = <<>> THEN <<>>
    ELSE LET rest == Tail(path)
             stops == {j \in 1..Len(rest) : rest[j] = "/"}
             n == IF stops = {} THEN Len(rest)
                  ELSE (CHOOSE j \in stops : \A z \in stops : j <= z) - 1
         IN  <<SubSeq(rest, 1, n)>> \o Segments(SliceFrom(rest, n))

\* C9: every requested URL has the path /mmz4281/<code>/E0.csv: exactly the
\* three segments mmz4281, the season code and E0.csv.
C9_UrlShape ==
    \A j \in 1..Len(requested) :
        Segments(PathOf(requested[j])) = <<(<<"mmz4281">>), season_codes[j], (<<"E0.csv">>)>>

(***************************************************************************)
(* Overall result: C3, C7, C8                                              *)
(***************************************************************************)
\* the tagged frames of the seasons that produced at least one row
RECURSIVE ProducingFrames(_, _)
ProducingFrames(s, codes) ==
    IF s = <<>> THEN <<>>
    ELSE (IF Head(s).kind = "data" /\ DataLines(Head(s).body) > 0
          THEN <<tag_season(Head(s).body, Head(codes))>> ELSE <<>>)
         \o ProducingFrames(Tail(s), Tail(codes))

SameRows(got, want) ==
    /\ ~got.absent
    /\ Len(got.rows) = Len(want.rows)
    /\ \A c \in Range(want.columns) : HasColumn(got, c) /\ Column(got, c) = Column(want, c)

\* C3: the value returned is the concatenation, in resolver order, of the row
\* sets of the seasons that produced rows, and None when no season did.
C3_OverallResult ==
    Returned =>
        LET producing == ProducingFrames(responses, season_codes) IN
        IF producing = <<>> THEN combined_data = None
        ELSE SameRows(combined_data, concat(producing))

AllFailed == \A j \in 1..Len(responses) : responses[j].kind \in FailureKinds

\* C7: when every fetch is empty or failing, the fetcher returns None, the
\* normalizer given None or a table without rows returns None, save_data
\* given None writes nothing and prints its message, and the run never raises
\* and never stops before the end.
C7_AllFailedPipeline ==
    /\ (Returned /\ AllFailed) => combined_data = None
    /\ (pc \in {"save", "done"} /\ (combined_data.absent \/ Len(combined_data.rows) = 0))
           => processed_data = None
    /\ (pc = "done" /\ processed_data = None)
           => file = NoFile /\ printed[Len(printed)] = "No Data To Save."
    /\ AllFailed => pc # "raised"
    /\ (AllFailed /\ pc # "done") => ENABLED Next

C7_Witness ==
    /\ pc = "done"
    /\ seasons >= 2
    /\ AllFailed
    /\ Count(responses, {"nodata"}) > 0
    /\ Count(responses, {"transport"}) > 0
    /\ file = NoFile

\* the label of a season from the years the resolver used
YearsLabel(start_year) == Str(start_year) \o <<"-">> \o Str(start_year + 1)

RECURSIVE LabelsWanted(_, _)
LabelsWanted(s, j) ==
    IF s = <<>> THEN <<>>
    ELSE (IF Head(s).kind = "data"
          THEN [r \in 1..DataLines(Head(s).body) |-> Text(YearsLabel(StartYear(j)))]
          ELSE <<>>)
         \o LabelsWanted(Tail(s), j + 1)

\* C8: every row of the combined table carries the label
\* "<start year>-<end year>" of the season it was fetched for.
C8_SeasonLabels ==
    (Returned /\ ~combined_data.absent) =>
        Column(combined_data, "Season") = LabelsWanted(responses, 1)

(***************************************************************************)
(* Normalizer: C5, C6, C10                                                 *)
(***************************************************************************)
Processed == pc \in {"save", "done"}

Usable(df) == ~df.absent /\ ~IsEmpty(df)

Sign(x) == IF x > 0 THEN 1 ELSE IF x < 0 THEN -1 ELSE 0

LabelOf(o) == IF o = 1 THEN "Win" ELSE IF o = 0 THEN "Draw" ELSE "Loss"

\* C5: with FTHG and FTAG both present, every row with goal values gets
\* Outcome = sign(FTHG - FTAG) and the matching label, and no Outcome outside
\* {1, 0, -1} or label outside {Win, Draw, Loss} occurs in any row.
C5_Outcome ==
    (Processed /\ Usable(combined_data)
       /\ HasColumn(combined_data, "FTHG") /\ HasColumn(combined_data, "FTAG")) =>
        /\ HasColumn(processed_data, "Outcome")
        /\ HasColumn(processed_data, "OutcomeLabel")
        /\ \A r \in 1..Len(combined_data.rows) :
            LET h == Column(combined_data, "FTHG")[r]
                a == Column(combined_data, "FTAG")[r]
                o == Column(processed_data, "Outcome")[r]
                l == Column(processed_data, "OutcomeLabel")[r]
            IN  /\ o \in {Num(1), Num(0), Num(-1)}
                /\ l \in {Text(<<"Win">>), Text(<<"Draw">>), Text(<<"Loss">>)}
                /\ (h.kind = "num" /\ a.kind = "num") =>
                       /\ o = Num(Sign(h.n - a.n))
                       /\ l = Text(<<LabelOf(Sign(h.n - a.n))>>)

C5_Witness ==
    /\ Processed
    /\ Len(processed_data.rows) = 3
    /\ HasColumn(processed_data, "Outcome")
    /\ Column(processed_data, "OutcomeLabel")
           = <<Text(<<"Loss">>), Text(<<"Win">>), Text(<<"Draw">>)>>
    /\ Column(combined_data, "FTHG") = <<Num(0), Num(2), Num(2)>>

\* C10: a row is marked Outcome 0 / Draw exactly when both goal values are
\* present and equal, and a row with a missing goal value gets none of the
\* three labels.
C10_DrawOnlyWhenEqual ==
    (Processed /\ ~processed_data.absent /\ HasColumn(processed_data, "Outcome")) =>
        \A r \in 1..Len(combined_data.rows) :
            LET h == Column(combined_data, "FTHG")[r]
                a == Column(combined_data, "FTAG")[r]
                o == Column(processed_data, "Outcome")[r]
                l == Column(processed_data, "OutcomeLabel")[r]
            IN  /\ (o = Num(0) /\ l = Text(<<"Draw">>))
                       <=> (h.kind = "num" /\ a.kind = "num" /\ h.n = a.n)
                /\ (h.kind = "nan" \/ a.kind = "nan") =>
                       l \notin {Text(<<"Win">>), Text(<<"Draw">>), Text(<<"Loss">>)}

AllowList == Range(relevant_columns)

Derived == {"Outcome", "OutcomeLabel", "HomePossession", "AwayPossession"}

Position(c) == CHOOSE j \in 1..Len(relevant_columns) : relevant_columns[j] = c

\* C6: for a non-empty input the output starts with exactly the allow-listed
\* columns present in the input, in allow-list order, followed only by derived
\* columns; it has the input's rows in the input's order (a Date is either
\* kept or read day first); fewer than 8 such columns only adds a warning.
C6_Projection ==
    (Processed /\ Usable(combined_data)) =>
        LET inp == combined_data
            out == processed_data
            n == Cardinality(Range(inp.columns) \cap AllowList)
            kept == SliceTo(out.columns, n)
        IN  /\ ~out.absent
            /\ Len(out.columns) >= n
            /\ Range(kept) = Range(inp.columns) \cap AllowList
            /\ \A a, b \in 1..n : a < b => Position(kept[a]) < Position(kept[b])
            /\ \A j \in (n + 1)..Len(out.columns) : out.columns[j] \in Derived
            /\ Len(out.rows) = Len(inp.rows)
            /\ \A r \in 1..Len(inp.rows) : \A c \in Range(kept) :
                   \/ Column(out, c)[r] = Column(inp, c)[r]
                   \/ c = "Date" /\ Column(out, c)[r] = DayFirst(Column(inp, c)[r])
            /\ (n < MinColumns) <=>
                   (\E j \in 1..Len(printed) :
                        printed[j] = "Warning Insufficient columns in dataset.")

C6_Witness ==
    /\ Processed
    /\ Usable(combined_data)
    /\ combined_data.columns = <<"Date", "HomeTeam", "FTHG">>
    /\ processed_data.columns = <<"HomeTeam", "FTHG", "Date">>
    /\ Len(processed_data.rows) = 3
    /\ processed_data.rows[1] # processed_data.rows[2]
    /\ processed_data.rows[2] # processed_data.rows[3]

====
